---- MODULE Spec2Model ----
(***************************************************************************)
(* Customer API test stub server (src/api/app.py): the OAuth2 client-      *)
(* credentials token endpoint, the bearer-token decorator require_auth,    *)
(* and the in-memory customer, vulnerability and lifecycle stores.         *)
(*                                                                         *)
(* Time is counted in whole seconds, as the token's iat and exp claims are *)
(* (int(now.timestamp())).  Python dicts are functions from string keys;   *)
(* the insertion-ordered customers_db is a sequence of records.            *)
(***************************************************************************)
EXTENDS Integers, Sequences, FiniteSets, TLC

VARIABLES
    now,                  \* the clock, in whole seconds
    exp_inclusive,        \* the installed JWT library rejects a token at now = exp
    held,                 \* the access token the caller holds (last one returned)
    customers_db,         \* insertion-ordered sequence of customer records
    vulnerabilities_db,   \* customer id -> (vulnerability id -> record)
    lifecycle_events,     \* sequence of lifecycle event records
    required_scopes,      \* required_scopes of the decorator that ran last
    token_info,           \* request.token_info set by the decorator
    req,                  \* the request handled last
    resp,                 \* the response returned to it
    pc                    \* where each handler thread stands in its handler

vars == <<now, exp_inclusive, held, customers_db, vulnerabilities_db,
          lifecycle_events, required_scopes, token_info, req, resp, pc>>

stores == <<customers_db, vulnerabilities_db, lifecycle_events>>

-----------------------------------------------------------------------------
(* Bounds of the model *)

\* longest requested scope list drawn for the token endpoint
MaxScopeLen == 2

-----------------------------------------------------------------------------
(* Configuration *)

SECRET_KEY == "your-secret-key-change-in-production"

\* timedelta(hours=1) in seconds
TokenLifetime == 3600

AllScopes == <<"customer:read", "customer:write", "vulnerability:read", "vulnerability:write">>

OAUTH_CLIENTS ==
    ("demo-client-id" :>
        [client_secret |-> "demo-client-secret", scopes |-> AllScopes]) @@
    ("performance-test-client" :>
        [client_secret |-> "test-secret-123", scopes |-> AllScopes])

\* a value that stands for Python's None / an absent field
None == "None"

Range(s) == {s[i] : i \in DOMAIN s}

-----------------------------------------------------------------------------
(* Responses *)

create_error_response(status_code, error_code, title, details) ==
    [status |-> status_code, code |-> error_code, title |-> title, details |-> details]

\* a request handled in one piece has no handler thread to follow
NoThreads == <<>>

\* a request that has not been answered
NoResponse == [status |-> 0]

-----------------------------------------------------------------------------
(* Tokens *)

NoPayload ==
    [iss |-> "", sub |-> "", iat |-> 0, exp |-> 0, scopes |-> <<>>,
     client_id |-> "", jti |-> ""]

\* the value of the Authorization header:
\*   present  the header was sent
\*   bearer   it starts with 'Bearer '
\*   jwt      what follows is a well-formed JWT
\*   key      the key the JWT is signed with
\*   payload  the claims of the JWT
NoHeader ==
    [present |-> FALSE, bearer |-> FALSE, jwt |-> FALSE, key |-> "", payload |-> NoPayload]

BasicHeader == [NoHeader EXCEPT !.present = TRUE]

GarbageBearer == [NoHeader EXCEPT !.present = TRUE, !.bearer = TRUE]

\* jwt.encode(payload, key): a bearer header carrying the signed token
Bearer(payload, key) ==
    [present |-> TRUE, bearer |-> TRUE, jwt |-> TRUE, key |-> key, payload |-> payload]

NoToken == NoHeader

-----------------------------------------------------------------------------
(* Requests *)

EmptyDict == [k \in {} |-> None]

\* the body of a request: whether request.is_json, and request.json
NoBody == [is_json |-> FALSE, json |-> EmptyDict]

JsonBody(json) == [is_json |-> TRUE, json |-> json]

NoRequest ==
    [op |-> None, hdr |-> NoHeader, client_id |-> None, client_secret |-> None,
     grant_type |-> None, scope |-> <<>>, brand |-> None, customer_id |-> None,
     vulnerability_id |-> None, body |-> NoBody]

TokenRequest(client_id, client_secret, grant_type, scope) ==
    [NoRequest EXCEPT !.op = "get_token", !.client_id = client_id,
                      !.client_secret = client_secret, !.grant_type = grant_type,
                      !.scope = scope]

ApiRequest(op, hdr) == [NoRequest EXCEPT !.op = op, !.hdr = hdr]

-----------------------------------------------------------------------------
(* POST /oauth/token *)

\* str.split(): the scope parameter is a sequence of space-separated fields,
\* "" where two spaces meet or the string starts or ends with one; split()
\* keeps the non-empty fields, in order
Split(fields) == SelectSeq(fields, LAMBDA w : w # "")

\* faulty variant: the fallback grants everything the client is allowed
DefaultScopeAll == AllScopes

DefaultScope == <<"customer:read">>

\* faulty variant: nothing is filtered out of the requested scopes
FilterNothing(requested_scopes, allowed_scopes) == requested_scopes

\* faulty variant: the allowed scopes are filtered by the requested ones (allowed order)
FilterAllowedOrder(requested_scopes, allowed_scopes) ==
    SelectSeq(allowed_scopes, LAMBDA s : s \in Range(requested_scopes))

Filter(requested_scopes, allowed_scopes) ==
    SelectSeq(requested_scopes, LAMBDA s : s \in Range(allowed_scopes))

GrantedScopes(scope, allowed_scopes) ==
    LET requested_scopes == IF scope # <<>> THEN scope ELSE allowed_scopes
        granted_scopes == Filter(requested_scopes, allowed_scopes)
    IN  IF granted_scopes = <<>> /\ requested_scopes # <<>> THEN DefaultScope
        ELSE IF granted_scopes = <<>> THEN allowed_scopes
        ELSE granted_scopes

UnsupportedGrantType ==
    create_error_response(400, "unsupported_grant_type", "Unsupported Grant Type",
                          "Only client_credentials grant type is supported")

UnknownClient ==
    create_error_response(401, "invalid_client", "Invalid Client",
                          "Client authentication failed")

\* faulty variant: a wrong secret is reported in words of its own
SecretMismatchTold ==
    create_error_response(401, "invalid_client", "Invalid Client",
                          "Client secret is wrong")

SecretMismatch ==
    create_error_response(401, "invalid_client", "Invalid Client",
                          "Client authentication failed")

\* faulty variant: a request without grant_type passes the grant check
GrantTypeOkOrAbsent(grant_type) == grant_type \in {"client_credentials", None}

GrantTypeOk(grant_type) == grant_type = "client_credentials"

TokenPayload(client_id, granted_scopes, t, jti) ==
    [iss |-> "customer-api-test-server", sub |-> client_id, iat |-> t,
     exp |-> t + TokenLifetime, scopes |-> granted_scopes,
     client_id |-> client_id, jti |-> jti]

\* the response of get_token to the request r at time t, uuid4() giving jti
TokenResponse(r, t, jti) ==
    IF ~GrantTypeOk(r.grant_type) THEN UnsupportedGrantType
    ELSE IF r.client_id \notin DOMAIN OAUTH_CLIENTS THEN UnknownClient
    ELSE IF OAUTH_CLIENTS[r.client_id].client_secret # r.client_secret THEN SecretMismatch
    ELSE LET granted_scopes ==
                 GrantedScopes(Split(r.scope), OAUTH_CLIENTS[r.client_id].scopes)
         IN  [status |-> 200,
              access_token |-> Bearer(TokenPayload(r.client_id, granted_scopes, t, jti),
                                      SECRET_KEY),
              token_type |-> "Bearer",
              expires_in |-> TokenLifetime,
              scope |-> granted_scopes]

\* a request waits for its handler
Pending(op) == req.op = op /\ resp = NoResponse

get_token(jti) ==
    /\ Pending("get_token")
    /\ resp' = TokenResponse(req, now, jti)
    /\ held' = IF resp'.status = 200 THEN resp'.access_token ELSE held
    /\ required_scopes' = <<>>
    /\ token_info' = NoPayload
    /\ UNCHANGED <<now, exp_inclusive, pc, stores, req>>

-----------------------------------------------------------------------------
(* Inputs *)

\* str(uuid.uuid4())
UuidSpace == {"uuid-1", "uuid-2"}

ClientIds == DOMAIN OAUTH_CLIENTS \cup {"unknown-client", None}

ClientSecrets == {"demo-client-secret", "test-secret-123", "wrong-secret", None}

GrantTypes == {"client_credentials", "password", None}

ScopeFields == {"customer:read", "customer:write", "vulnerability:write", "admin", ""}

SeqsUpTo(S, n) == UNION {[1..k -> S] : k \in 0..n}

ScopeParams == SeqsUpTo(ScopeFields, MaxScopeLen)

TokenRequests ==
    {TokenRequest(c, s, g, sc) :
        c \in ClientIds, s \in ClientSecrets, g \in GrantTypes, sc \in ScopeParams}

-----------------------------------------------------------------------------
(* The token endpoint alone, on every request of TokenRequests *)

InitIssue ==
    /\ now = 0
    /\ exp_inclusive \in BOOLEAN
    /\ held = NoToken
    /\ customers_db = <<>>
    /\ vulnerabilities_db = <<>>
    /\ lifecycle_events = <<>>
    /\ required_scopes = <<>>
    /\ token_info = NoPayload
    /\ req \in TokenRequests
    /\ resp = NoResponse
    /\ pc = NoThreads

NextIssue == \E jti \in UuidSpace : get_token(jti)

SpecIssue == InitIssue /\ [][NextIssue]_vars

-----------------------------------------------------------------------------
(* require_auth *)

MissingHeader ==
    create_error_response(401, "API-401", "Unauthorized",
                          "Missing or invalid authorization header")

TokenExpired ==
    create_error_response(401, "API-401", "Token Expired", "JWT token has expired")

InvalidToken ==
    create_error_response(401, "API-401", "Invalid Token", "JWT token is invalid")

Forbidden ==
    create_error_response(403, "API-403", "Forbidden", "Insufficient permissions")

\* faulty variant: the exp claim is not checked
ExpiredNever(exp, t, inclusive) == FALSE

\* faulty variant: the expiry check is one second early
ExpiredEarly(exp, t, inclusive) == exp <= t + 1

\* the exp check of jwt.decode at time t.  PyJWT up to 2.5 raises
\* ExpiredSignatureError when exp < now, PyJWT from 2.6 when exp <= now; the
\* source pins no version, so the build decides (exp_inclusive).
Expired(exp, t, inclusive) == IF inclusive THEN exp <= t ELSE exp < t

\* jwt.decode(token, SECRET_KEY, algorithms=[ALGORITHM]): the signature is
\* verified before the claims
Decode(hdr, t, inclusive) ==
    IF ~hdr.jwt \/ hdr.key # SECRET_KEY THEN "InvalidTokenError"
    ELSE IF Expired(hdr.payload.exp, t, inclusive) THEN "ExpiredSignatureError"
    ELSE "payload"

\* faulty variant: every required scope must be in the token
ScopeOkAll(scopes, token_scopes) ==
    scopes = <<>> \/ \A i \in DOMAIN scopes : scopes[i] \in Range(token_scopes)

\* faulty variant: the scopes of the token are not looked at
ScopeOkAlways(scopes, token_scopes) == TRUE

\* not required_scopes, or any(scope in token_scopes for scope in required_scopes)
ScopeOk(scopes, token_scopes) ==
    scopes = <<>> \/ \E i \in DOMAIN scopes : scopes[i] \in Range(token_scopes)

\* faulty variant: the scopes of a signed token are checked before its expiry
RequireAuthScopesFirst(hdr, scopes, t, inclusive) ==
    IF ~hdr.present \/ ~hdr.bearer
    THEN [ok |-> FALSE, resp |-> MissingHeader, token_info |-> NoPayload]
    ELSE IF ~hdr.jwt \/ hdr.key # SECRET_KEY
    THEN [ok |-> FALSE, resp |-> InvalidToken, token_info |-> NoPayload]
    ELSE IF ~ScopeOk(scopes, hdr.payload.scopes)
    THEN [ok |-> FALSE, resp |-> Forbidden, token_info |-> NoPayload]
    ELSE IF Expired(hdr.payload.exp, t, inclusive)
    THEN [ok |-> FALSE, resp |-> TokenExpired, token_info |-> NoPayload]
    ELSE [ok |-> TRUE, resp |-> NoResponse, token_info |-> hdr.payload]

\* the decorator's verdict on a header: ok when f is called, else the response
RequireAuth(hdr, scopes, t, inclusive) ==
    IF ~hdr.present \/ ~hdr.bearer
    THEN [ok |-> FALSE, resp |-> MissingHeader, token_info |-> NoPayload]
    ELSE LET d == Decode(hdr, t, inclusive)
         IN  IF d = "ExpiredSignatureError"
             THEN [ok |-> FALSE, resp |-> TokenExpired, token_info |-> NoPayload]
             ELSE IF d = "InvalidTokenError"
             THEN [ok |-> FALSE, resp |-> InvalidToken, token_info |-> NoPayload]
             ELSE IF ~ScopeOk(scopes, hdr.payload.scopes)
             THEN [ok |-> FALSE, resp |-> Forbidden, token_info |-> NoPayload]
             ELSE [ok |-> TRUE, resp |-> NoResponse, token_info |-> hdr.payload]

\* the decorator around a function f that answers 200 and touches no store,
\* for the required_scopes the decorator was built with
decorated_function ==
    /\ Pending("f")
    /\ LET v == RequireAuth(req.hdr, required_scopes, now, exp_inclusive)
       IN  /\ token_info' = v.token_info
           /\ resp' = IF v.ok THEN [status |-> 200] ELSE v.resp
    /\ UNCHANGED <<now, exp_inclusive, pc, held, stores, required_scopes, req>>

-----------------------------------------------------------------------------
(* The decorator alone, on issued and forged tokens and every required list *)

\* longest required_scopes list drawn for the decorator
MaxRequired == 2

\* the tokens get_token returns at time 0
IssuedTokens ==
    {TokenResponse(r, 0, "uuid-1").access_token :
        r \in {q \in TokenRequests : TokenResponse(q, 0, "uuid-1").status = 200}}

\* the token signed with another key
Resigned(tok) == [tok EXCEPT !.key = "other-key"]

\* the token with its scopes altered, so that its signature no longer validates
Altered(tok) == [tok EXCEPT !.key = "", !.payload.scopes = AllScopes]

VerifyHeaders ==
    {NoHeader, BasicHeader, GarbageBearer}
        \cup IssuedTokens
        \cup {Resigned(tok) : tok \in IssuedTokens}
        \cup {Altered(tok) : tok \in IssuedTokens}

RequiredLists ==
    SeqsUpTo({"customer:read", "customer:write", "vulnerability:write"}, MaxRequired)

ClockValues == {0, TokenLifetime - 1, TokenLifetime, TokenLifetime + 1}

InitVerify ==
    /\ now \in ClockValues
    /\ exp_inclusive \in BOOLEAN
    /\ held = NoToken
    /\ customers_db = <<>>
    /\ vulnerabilities_db = <<>>
    /\ lifecycle_events = <<>>
    /\ required_scopes \in RequiredLists
    /\ token_info = NoPayload
    /\ req \in {ApiRequest("f", h) : h \in VerifyHeaders}
    /\ resp = NoResponse
    /\ pc = NoThreads

NextVerify == decorated_function

SpecVerify == InitVerify /\ [][NextVerify]_vars

-----------------------------------------------------------------------------
(* Dicts and the stores *)

Has(d, k) == k \in DOMAIN d

\* d[k] = v
Put(d, k, v) == [x \in DOMAIN d \cup {k} |-> IF x = k THEN v ELSE d[x]]

\* faulty variant: the update replaces the dict
UpdateReplace(d, e) == e

\* d.update(e)
Update(d, e) == [x \in DOMAIN d \cup DOMAIN e |-> IF x \in DOMAIN e THEN e[x] ELSE d[x]]

\* customers_db is a Python dict: a sequence of entries in insertion order,
\* no two with the same key
Keys(db) == {db[i].key : i \in DOMAIN db}

Position(db, k) == CHOOSE i \in DOMAIN db : db[i].key = k

Lookup(db, k) == db[Position(db, k)].value

\* db[k] = v: a key already there keeps its place and gets the new value
DbPut(db, k, v) ==
    IF k \in Keys(db) THEN [db EXCEPT ![Position(db, k)].value = v]
    ELSE Append(db, [key |-> k, value |-> v])

\* datetime.datetime.now().isoformat()
IsoFormat(t) == ToString(t)

\* random.randint(100000000, 999999999)
RandintLow == 100000000

RandintHigh == 999999999

\* str(random.randint(...)): the two ends of the range stand for the range
generate_customer_id == {ToString(RandintLow), ToString(RandintHigh)}

NotFoundCustomer ==
    create_error_response(404, "API-404", "Customer Not Found", "Customer with ID not found")

NotFoundVulnerability ==
    create_error_response(404, "API-404", "Vulnerability Not Found",
                          "Vulnerability with ID not found")

InvalidContentType ==
    create_error_response(400, "API-400", "Invalid Content Type",
                          "Expected application/vnd.api+json")

MissingData ==
    create_error_response(400, "API-400", "Invalid Request", "Missing data object")

\* an exception no handler catches: Flask answers 500
InternalServerError(exception) ==
    create_error_response(500, "", "Internal Server Error", exception)

\* not data or 'data' not in data
NoDataObject(json) == json = EmptyDict \/ ~Has(json, "data")

AuditEntry(fields) ==
    [extensionFieldsType |-> "Customer", extensionFieldsCategory |-> "Audit",
     extensionField |-> fields]

Field(k, v) == [key |-> k, value |-> v]

-----------------------------------------------------------------------------
(* init_sample_data: the store of a process started as __main__ *)

generate_sample_customer(customer_id, brand, t) ==
    [id |-> customer_id,
     type |-> "Individual",
     attributes |->
        [partyDetails |->
            [phoneContact |-> <<[phoneType |-> "MOBILE_PHONE", phoneNumber |-> "0412345678"]>>,
             emailContact |-> <<[emailAddress |-> "customer@example.com"]>>,
             alternativePartyIdReferences |->
                <<[partyIdScheme |-> brand, partyIdRef |-> customer_id,
                   partyIdStatus |-> "CUSTOMER"]>>,
             extensionFields |->
                <<AuditEntry(<<Field("createdDate", IsoFormat(t)),
                               Field("lastModifiedDate", IsoFormat(t))>>)>>,
             individual |-> [firstName |-> "John", lastName |-> "Smith"]]]]

sample_vulnerability(vulnerability_id, customer_id) ==
    [id |-> vulnerability_id,
     type |-> "Vulnerability",
     attributes |-> [partyDetails |-> [partyIdRef |-> customer_id]]]

\* the stores at startup: empty when the module is imported by a server, one
\* sample customer with a vulnerability when init_sample_data has run
SampleId == ToString(RandintLow)

SampleVulnerabilityId == "uuid-1"

SeedStores ==
    {[customers |-> <<>>, vulnerabilities |-> EmptyDict],
     [customers |-> <<[key |-> SampleId,
                       value |-> generate_sample_customer(SampleId, "AAMI", 0)]>>,
      vulnerabilities |->
          (SampleId :> (SampleVulnerabilityId :>
                            sample_vulnerability(SampleVulnerabilityId, SampleId)))]}

-----------------------------------------------------------------------------
(* The endpoints behind require_auth *)

\* the decorator's part of a handler: body is the handler's own part
Decorated(scopes, body) ==
    LET v == RequireAuth(req.hdr, scopes, now, exp_inclusive)
    IN  /\ required_scopes' = scopes
        /\ token_info' = v.token_info
        /\ IF v.ok THEN body ELSE resp' = v.resp /\ UNCHANGED stores
        /\ UNCHANGED <<now, exp_inclusive, pc, held, req>>

\* faulty variant: the actor is always the default
ActorSystem(info) == "system"

\* request.token_info.get('client_id', 'system')
Actor(info) == info.client_id

\* extensionFields.append(entry)
Stamp(extension_fields, entry) == Append(extension_fields, entry)

\* the record create_customer stores for the data object, or the exception
NewCustomer(customer_data, customer_id, brand, info, t) ==
    LET with_id == Put(customer_data, "id", customer_id)
        with_attributes ==
            IF ~Has(with_id, "attributes")
            THEN Put(with_id, "attributes", [partyDetails |-> EmptyDict])
            ELSE with_id
    IN  IF ~Has(with_attributes["attributes"], "partyDetails")
        THEN [raised |-> TRUE, record |-> EmptyDict]
        ELSE LET party == with_attributes["attributes"]["partyDetails"]
                 fields == IF Has(party, "extensionFields") THEN party["extensionFields"]
                           ELSE <<>>
                 creation_fields ==
                     AuditEntry(<<Field("createdDate", IsoFormat(t)),
                                  Field("createdBy", Actor(info)),
                                  Field("brand", brand)>>)
             IN  [raised |-> FALSE,
                  record |->
                      Put(with_attributes, "attributes",
                          Put(with_attributes["attributes"], "partyDetails",
                              Put(party, "extensionFields",
                                  Stamp(fields, creation_fields))))]

create_customer ==
    /\ Pending("create_customer")
    /\ \E customer_id \in generate_customer_id :
        Decorated(<<"customer:write">>,
            IF ~req.body.is_json
            THEN resp' = InvalidContentType /\ UNCHANGED stores
            ELSE IF NoDataObject(req.body.json)
            THEN resp' = MissingData /\ UNCHANGED stores
            ELSE LET new == NewCustomer(req.body.json["data"], customer_id, req.brand,
                                        token_info', now)
                 IN  IF new.raised
                     THEN resp' = InternalServerError("KeyError") /\ UNCHANGED stores
                     ELSE /\ customers_db' = DbPut(customers_db, customer_id, new.record)
                          /\ resp' = [status |-> 201, data |-> new.record]
                          /\ UNCHANGED <<vulnerabilities_db, lifecycle_events>>)

\* faulty variant: a get leaves a lifecycle event behind
get_customer_logged ==
    /\ Pending("get_customer")
    /\ Decorated(<<"customer:read">>,
            /\ resp' = IF req.customer_id \notin Keys(customers_db) THEN NotFoundCustomer
                       ELSE [status |-> 200, data |-> Lookup(customers_db, req.customer_id)]
            /\ lifecycle_events' = Append(lifecycle_events, [operation |-> "get"])
            /\ UNCHANGED <<customers_db, vulnerabilities_db>>)

get_customer ==
    /\ Pending("get_customer")
    /\ Decorated(<<"customer:read">>,
            /\ resp' = IF req.customer_id \notin Keys(customers_db) THEN NotFoundCustomer
                       ELSE [status |-> 200, data |-> Lookup(customers_db, req.customer_id)]
            /\ UNCHANGED stores)

\* faulty variant: the whole data object is merged into the record
MergeWhole(existing, update_data) == Update(existing, update_data)

\* if 'attributes' in update_data: existing['attributes'].update(update_data['attributes'])
MergeAttributes(existing, update_data) ==
    IF Has(update_data, "attributes")
    THEN Put(existing, "attributes",
             Update(IF Has(existing, "attributes") THEN existing["attributes"] ELSE EmptyDict,
                    update_data["attributes"]))
    ELSE existing

\* the record update_customer leaves in the store, or the exception
UpdatedCustomer(existing_customer, update_data, info, t) ==
    LET merged == MergeAttributes(existing_customer, update_data)
    IN  IF ~Has(merged, "attributes")
        THEN [raised |-> TRUE, record |-> merged]
        ELSE LET attributes == merged["attributes"]
                 party == IF Has(attributes, "partyDetails") THEN attributes["partyDetails"]
                          ELSE EmptyDict
                 fields == IF Has(party, "extensionFields") THEN party["extensionFields"]
                           ELSE <<>>
                 update_fields ==
                     AuditEntry(<<Field("lastModifiedDate", IsoFormat(t)),
                                  Field("lastModifiedBy", Actor(info))>>)
             IN  [raised |-> FALSE,
                  record |->
                      Put(merged, "attributes",
                          Put(attributes, "partyDetails",
                              Put(party, "extensionFields",
                                  Append(fields, update_fields))))]

update_customer ==
    /\ Pending("update_customer")
    /\ Decorated(<<"customer:write">>,
            IF req.customer_id \notin Keys(customers_db)
            THEN resp' = NotFoundCustomer /\ UNCHANGED stores
            ELSE IF ~req.body.is_json
            THEN resp' = InvalidContentType /\ UNCHANGED stores
            ELSE IF NoDataObject(req.body.json)
            THEN resp' = MissingData /\ UNCHANGED stores
            ELSE LET upd == UpdatedCustomer(Lookup(customers_db, req.customer_id),
                                            req.body.json["data"], token_info', now)
                 IN  /\ customers_db' = DbPut(customers_db, req.customer_id, upd.record)
                     /\ resp' = IF upd.raised THEN InternalServerError("KeyError")
                                ELSE [status |-> 200, data |-> upd.record]
                     /\ UNCHANGED <<vulnerabilities_db, lifecycle_events>>)

\* list(vulnerabilities_db.get(customer_id, {}).values())
VulnerabilityList(customer_id) ==
    IF Has(vulnerabilities_db, customer_id)
    THEN {vulnerabilities_db[customer_id][v] : v \in DOMAIN vulnerabilities_db[customer_id]}
    ELSE {}

get_customer_vulnerabilities ==
    /\ Pending("get_customer_vulnerabilities")
    /\ Decorated(<<"vulnerability:read">>,
            /\ resp' = IF req.customer_id \notin Keys(customers_db) THEN NotFoundCustomer
                       ELSE [status |-> 200, list |-> VulnerabilityList(req.customer_id)]
            /\ UNCHANGED stores)

UpdatedVulnerability(existing_vulnerability, update_data) ==
    MergeAttributes(existing_vulnerability, update_data)

update_customer_vulnerability ==
    /\ Pending("update_customer_vulnerability")
    /\ Decorated(<<"vulnerability:write">>,
            IF req.customer_id \notin Keys(customers_db)
            THEN resp' = NotFoundCustomer /\ UNCHANGED stores
            ELSE IF \/ ~Has(vulnerabilities_db, req.customer_id)
                    \/ ~Has(vulnerabilities_db[req.customer_id], req.vulnerability_id)
            THEN resp' = NotFoundVulnerability /\ UNCHANGED stores
            ELSE IF ~req.body.is_json
            THEN resp' = InvalidContentType /\ UNCHANGED stores
            ELSE IF NoDataObject(req.body.json)
            THEN resp' = MissingData /\ UNCHANGED stores
            ELSE LET new == UpdatedVulnerability(
                                vulnerabilities_db[req.customer_id][req.vulnerability_id],
                                req.body.json["data"])
                 IN  /\ vulnerabilities_db' =
                            Put(vulnerabilities_db, req.customer_id,
                                Put(vulnerabilities_db[req.customer_id],
                                    req.vulnerability_id, new))
                     /\ resp' = [status |-> 200, data |-> new]
                     /\ UNCHANGED <<customers_db, lifecycle_events>>)

\* faulty variant: the event is put in front of the sequence
RecordFirst(events, event) == <<event>> \o events

\* lifecycle_events.append(lifecycle_event)
Record(events, event) == Append(events, event)

\* d.get(k, default)
Get(d, k, default) == IF Has(d, k) THEN d[k] ELSE default

customer_lifecycle_operation ==
    /\ Pending("customer_lifecycle_operation")
    /\ \E uuid \in UuidSpace :
        Decorated(<<"customer:write">>,
            IF ~req.body.is_json
            THEN resp' = InvalidContentType /\ UNCHANGED stores
            ELSE IF NoDataObject(req.body.json)
            THEN resp' = MissingData /\ UNCHANGED stores
            ELSE LET lifecycle_data == req.body.json["data"]
                     lifecycle_event ==
                         [id |-> uuid,
                          timestamp |-> IsoFormat(now),
                          brand |-> req.brand,
                          operation |-> Get(lifecycle_data, "operation", "unknown"),
                          client_id |-> token_info'.client_id,
                          data |-> lifecycle_data]
                 IN  /\ lifecycle_events' = Record(lifecycle_events, lifecycle_event)
                     /\ resp' = [status |-> 200,
                                 partyDetails |->
                                     Get(Get(lifecycle_data, "attributes", EmptyDict),
                                         "partyDetails", EmptyDict)]
                     /\ UNCHANGED <<customers_db, vulnerabilities_db>>)

(* GET /api/health *)
health_check ==
    /\ Pending("health_check")
    /\ resp' = [status |-> 200, service |-> "customer-api-test-server",
                timestamp |-> IsoFormat(now)]
    /\ required_scopes' = <<>>
    /\ token_info' = NoPayload
    /\ UNCHANGED <<now, exp_inclusive, pc, held, stores, req>>

-----------------------------------------------------------------------------
(* Strings: a Python str is its sequence of characters *)

Letters ==
    <<<<"a", "A">>, <<"b", "B">>, <<"c", "C">>, <<"d", "D">>, <<"e", "E">>, <<"f", "F">>,
      <<"g", "G">>, <<"h", "H">>, <<"i", "I">>, <<"j", "J">>, <<"k", "K">>, <<"l", "L">>,
      <<"m", "M">>, <<"n", "N">>, <<"o", "O">>, <<"p", "P">>, <<"q", "Q">>, <<"r", "R">>,
      <<"s", "S">>, <<"t", "T">>, <<"u", "U">>, <<"v", "V">>, <<"w", "W">>, <<"x", "X">>,
      <<"y", "Y">>, <<"z", "Z">>>>

\* the characters of the strings the requests and the records use
Chars(s) ==
    CASE s = "" -> <<>>
      [] s = "Ann" -> <<"A", "n", "n">>
      [] s = "Bob" -> <<"B", "o", "b">>
      [] s = "John" -> <<"J", "o", "h", "n">>
      [] s = "Anna" -> <<"A", "n", "n", "a">>
      [] s = "an" -> <<"a", "n">>
      [] s = "Lee" -> <<"L", "e", "e">>
      [] s = "lee" -> <<"l", "e", "e">>
      [] s = "Ann Co" -> <<"A", "n", "n", " ", "C", "o">>
      [] s = "ann" -> <<"a", "n", "n">>
      [] s = "ann@x.io" -> <<"a", "n", "n", "@", "x", ".", "i", "o">>
      [] s = "Ann@X.io" -> <<"A", "n", "n", "@", "X", ".", "i", "o">>
      [] s = "co@x.io" -> <<"c", "o", "@", "x", ".", "i", "o">>
      [] s = "true" -> <<"t", "r", "u", "e">>
      [] s = "True" -> <<"T", "r", "u", "e">>
      [] s = "false" -> <<"f", "a", "l", "s", "e">>

\* str.upper() and str.lower(), character by character
UpperChar(c) ==
    IF \E i \in DOMAIN Letters : Letters[i][1] = c
    THEN Letters[CHOOSE i \in DOMAIN Letters : Letters[i][1] = c][2]
    ELSE c

LowerChar(c) ==
    IF \E i \in DOMAIN Letters : Letters[i][2] = c
    THEN Letters[CHOOSE i \in DOMAIN Letters : Letters[i][2] = c][1]
    ELSE c

upper(s) == [i \in DOMAIN Chars(s) |-> UpperChar(Chars(s)[i])]

lower(s) == [i \in DOMAIN Chars(s) |-> LowerChar(Chars(s)[i])]

\* a in b, for two character sequences
In(a, b) == \E i \in 0..(Len(b) - Len(a)) : SubSeq(b, i + 1, i + Len(a)) = a

-----------------------------------------------------------------------------
(* GET /v3/brands/<brand>/customers: search_customers *)

NoMatchingCustomers ==
    create_error_response(404, "API-404", "No Matching Customers",
                          "No customers found matching the search criteria")

\* request.args.get('limit', 20)
DefaultLimit == 20

\* a query parameter that is there and not empty
Truthy(v) == v # None /\ v # ""

\* faulty variant: an email address supplied decides before the names
CriterionEmailFirst(args) ==
    IF Truthy(Get(args, "emailAddress", None)) THEN "emailAddress"
    ELSE IF Truthy(Get(args, "firstName", None)) \/ Truthy(Get(args, "lastName", None))
    THEN "name"
    ELSE IF Truthy(Get(args, "registeredName", None)) THEN "registeredName"
    ELSE IF Truthy(Get(args, "phoneNumber", None)) THEN "phoneNumber"
    ELSE IF Truthy(Get(args, "partyIdScheme", None)) /\ Truthy(Get(args, "partyIdRef", None))
    THEN "partyId"
    ELSE "default"

\* the branch of the if/elif chain the parameters select
Criterion(args) ==
    IF Truthy(Get(args, "firstName", None)) \/ Truthy(Get(args, "lastName", None))
    THEN "name"
    ELSE IF Truthy(Get(args, "registeredName", None)) THEN "registeredName"
    ELSE IF Truthy(Get(args, "emailAddress", None)) THEN "emailAddress"
    ELSE IF Truthy(Get(args, "phoneNumber", None)) THEN "phoneNumber"
    ELSE IF Truthy(Get(args, "partyIdScheme", None)) /\ Truthy(Get(args, "partyIdRef", None))
    THEN "partyId"
    ELSE "default"

\* request.args.get('strictMatch', 'false').lower() == 'true'
StrictMatch(args) == lower(Get(args, "strictMatch", "false")) = Chars("true")

\* int(request.args.get('limit', 20))
Limit(args) == Get(args, "limit", DefaultLimit)

\* faulty variant: names are compared by containment in both modes
NameTestContains(strict_match, name, field) == In(upper(name), upper(field))

\* the comparison of a supplied name with a field of the record
NameTest(strict_match, name, field) ==
    IF strict_match THEN upper(field) = upper(name) ELSE In(upper(name), upper(field))

PartyDetails(customer) == Get(Get(customer, "attributes", EmptyDict), "partyDetails", EmptyDict)

\* faulty variant: the scheme and the reference may match different references
PartyIdMatchAcross(alt_refs, party_id_scheme, party_id_ref) ==
    /\ \E i \in DOMAIN alt_refs : Get(alt_refs[i], "partyIdScheme", None) = party_id_scheme
    /\ \E i \in DOMAIN alt_refs : Get(alt_refs[i], "partyIdRef", None) = party_id_ref

\* the loop over alt_refs: one reference has the scheme and the reference
PartyIdMatch(alt_refs, party_id_scheme, party_id_ref) ==
    \E i \in DOMAIN alt_refs :
        /\ Get(alt_refs[i], "partyIdScheme", None) = party_id_scheme
        /\ Get(alt_refs[i], "partyIdRef", None) = party_id_ref

\* match, for one customer of the loop
Match(customer, args, results, limit) ==
    LET first_name == Get(args, "firstName", None)
        last_name == Get(args, "lastName", None)
        strict_match == StrictMatch(args)
        party == PartyDetails(customer)
        branch == Criterion(args)
    IN  CASE branch = "name" ->
                LET individual == Get(party, "individual", EmptyDict)
                IN  /\ individual # EmptyDict
                    /\ Truthy(first_name) =>
                           NameTest(strict_match, first_name, Get(individual, "firstName", ""))
                    /\ Truthy(last_name) =>
                           NameTest(strict_match, last_name, Get(individual, "lastName", ""))
          [] branch = "registeredName" ->
                LET organization == Get(party, "organisation", EmptyDict)
                IN  /\ organization # EmptyDict
                    /\ NameTest(strict_match, args["registeredName"],
                                Get(organization, "registeredName", ""))
          [] branch = "emailAddress" ->
                LET email_contacts == Get(party, "emailContact", <<>>)
                IN  \E i \in DOMAIN email_contacts :
                        lower(args["emailAddress"])
                            = lower(Get(email_contacts[i], "emailAddress", ""))
          [] branch = "phoneNumber" ->
                LET phone_contacts == Get(party, "phoneContact", <<>>)
                IN  \E i \in DOMAIN phone_contacts :
                        args["phoneNumber"] = Get(phone_contacts[i], "phoneNumber", "")
          [] branch = "partyId" ->
                LET alt_refs == Get(party, "alternativePartyIdReferences", <<>>)
                IN  PartyIdMatch(alt_refs, args["partyIdScheme"], args["partyIdRef"])
          [] branch = "default" -> Len(results) < limit

\* the loop over customers_db.items() from position i on, with its break
RECURSIVE Scan(_, _, _, _)
Scan(db, i, args, results) ==
    IF i > Len(db) THEN results
    ELSE IF Match(db[i].value, args, results, Limit(args))
    THEN LET appended == Append(results, db[i].value)
         IN  IF Len(appended) >= Limit(args) THEN appended
             ELSE Scan(db, i + 1, args, appended)
    ELSE Scan(db, i + 1, args, results)

\* faulty variant: an empty result is answered 200 with an empty list
SearchResponseEmptyOk(db, args) == [status |-> 200, list |-> Scan(db, 1, args, <<>>)]

SearchResponse(db, args) ==
    LET results == Scan(db, 1, args, <<>>)
    IN  IF results = <<>> THEN NoMatchingCustomers
        ELSE [status |-> 200, list |-> results]

search_customers ==
    /\ Pending("search_customers")
    /\ Decorated(<<"customer:read">>,
            /\ resp' = SearchResponse(customers_db, req.args)
            /\ UNCHANGED stores)

-----------------------------------------------------------------------------
(* The server: one request at a time, the clock, and the caller *)

\* most audit entries on a record an update is sent for
MaxAudit == 2

\* most lifecycle events after which a lifecycle request is still sent
MaxEvents == 2

CreateBodies ==
    {NoBody,
     JsonBody(EmptyDict),
     JsonBody([data |-> EmptyDict]),
     JsonBody([data |-> [attributes |-> EmptyDict]]),
     JsonBody([data |->
        [type |-> "Individual",
         attributes |->
            [partyDetails |-> [individual |-> [firstName |-> "Ann", lastName |-> "Lee"]]]]])}

UpdateBodies ==
    {NoBody,
     JsonBody([data |-> EmptyDict]),
     JsonBody([data |-> [attributes |-> [segment |-> "gold"]]]),
     JsonBody([data |->
        [id |-> "other-id",
         attributes |->
            [partyDetails |-> [individual |-> [firstName |-> "Bob", lastName |-> "Lee"]]]]])}

VulnerabilityBodies ==
    {NoBody, JsonBody([data |-> [attributes |-> [severity |-> "high"]]])}

LifecycleBodies ==
    {NoBody, JsonBody(EmptyDict), JsonBody([data |-> [operation |-> "merge"]])}

CustomerIds == generate_customer_id

VulnerabilityIds == {SampleVulnerabilityId, "uuid-2"}

Call(op, hdr, customer_id, vulnerability_id, body) ==
    [ApiRequest(op, hdr) EXCEPT !.brand = "AAMI", !.customer_id = customer_id,
                                !.vulnerability_id = vulnerability_id, !.body = body]

SearchRequest(hdr, args) ==
    Call("search_customers", hdr, None, None, NoBody) @@ [args |-> args]

\* the queries sent to the server: no criterion, and part of a first name
Queries == {EmptyDict, [firstName |-> "an"]}

\* the requests a caller sends with the header hdr; updates are sent for the
\* customer with the sample id (there or not)
ApiRequests(hdr) ==
    {Call("create_customer", hdr, None, None, b) : b \in CreateBodies}
    \cup {Call("get_customer", hdr, c, None, NoBody) : c \in CustomerIds}
    \cup {Call("update_customer", hdr, SampleId, None, b) : b \in UpdateBodies}
    \cup {Call("get_customer_vulnerabilities", hdr, c, None, NoBody) : c \in CustomerIds}
    \cup {Call("update_customer_vulnerability", hdr, SampleId, v, b) :
            v \in VulnerabilityIds, b \in VulnerabilityBodies}
    \cup {Call("customer_lifecycle_operation", hdr, None, None, b) : b \in LifecycleBodies}
    \cup {SearchRequest(hdr, args) : args \in Queries}

\* the requests sent without a token the server signed: well-formed requests
\* for the sample customer, with no header or with a forged token
ForgedRequests(hdr) ==
    {Call("create_customer", hdr, None, None,
          JsonBody([data |-> EmptyDict])),
     Call("get_customer", hdr, SampleId, None, NoBody),
     Call("update_customer", hdr, SampleId, None,
          JsonBody([data |-> [attributes |-> [segment |-> "gold"]]])),
     Call("get_customer_vulnerabilities", hdr, SampleId, None, NoBody),
     Call("update_customer_vulnerability", hdr, SampleId, SampleVulnerabilityId,
          JsonBody([data |-> [attributes |-> [severity |-> "high"]]])),
     Call("customer_lifecycle_operation", hdr, None, None,
          JsonBody([data |-> [operation |-> "merge"]])),
     SearchRequest(hdr, EmptyDict)}

CallerTokenRequests ==
    {TokenRequest("demo-client-id", "demo-client-secret", "client_credentials", <<>>),
     TokenRequest("performance-test-client", "test-secret-123", "client_credentials",
                  <<"customer:read">>),
     TokenRequest("demo-client-id", "wrong-secret", "client_credentials", <<>>)}

Requests ==
    CallerTokenRequests
    \cup {ApiRequest("health_check", NoHeader)}
    \cup ForgedRequests(NoHeader)
    \cup (IF held = NoToken THEN {}
          ELSE ApiRequests(held) \cup ForgedRequests(Resigned(held)))

AuditLen(customer) ==
    IF Has(customer, "attributes") /\ Has(customer["attributes"], "partyDetails")
       /\ Has(customer["attributes"]["partyDetails"], "extensionFields")
    THEN Len(customer["attributes"]["partyDetails"]["extensionFields"])
    ELSE 0

\* the stores stay within the bounds of the model when r is handled
WithinBounds(r) ==
    /\ r.op = "update_customer" /\ r.customer_id \in Keys(customers_db) =>
           AuditLen(Lookup(customers_db, r.customer_id)) < MaxAudit
    /\ r.op = "customer_lifecycle_operation" => Len(lifecycle_events) < MaxEvents

Idle == req = NoRequest /\ resp = NoResponse

\* one of the requests arrives
Receive(requests) ==
    /\ Idle
    /\ \E r \in requests : WithinBounds(r) /\ req' = r
    /\ UNCHANGED <<now, exp_inclusive, pc, held, stores, required_scopes, token_info, resp>>

\* the response leaves and the request context is dropped
Deliver ==
    /\ resp # NoResponse
    /\ req' = NoRequest
    /\ resp' = NoResponse
    /\ required_scopes' = <<>>
    /\ token_info' = NoPayload
    /\ UNCHANGED <<now, exp_inclusive, pc, held, stores>>

\* time passes between requests, to a later one of the times
Tick(times) ==
    /\ Idle
    /\ \E t \in times : t > now /\ now' = t
    /\ UNCHANGED <<exp_inclusive, pc, held, stores, required_scopes, token_info, req, resp>>

\* a token the server signed one token lifetime and a second before it was
\* restarted: SECRET_KEY is the same in every run, so the token still verifies
StaleToken ==
    TokenResponse(TokenRequest("demo-client-id", "demo-client-secret",
                               "client_credentials", <<>>), 0, "uuid-1").access_token

Init ==
    /\ now = TokenLifetime + 1
    /\ exp_inclusive \in BOOLEAN
    /\ held \in {NoToken, StaleToken}
    /\ \E seed \in SeedStores :
        /\ customers_db = seed.customers
        /\ vulnerabilities_db = seed.vulnerabilities
    /\ lifecycle_events = <<>>
    /\ required_scopes = <<>>
    /\ token_info = NoPayload
    /\ req = NoRequest
    /\ resp = NoResponse
    /\ pc = NoThreads

Next ==
    \/ Receive(Requests)
    \/ Deliver
    \/ \E jti \in UuidSpace : get_token(jti)
    \/ health_check
    \/ create_customer
    \/ get_customer
    \/ update_customer
    \/ get_customer_vulnerabilities
    \/ update_customer_vulnerability
    \/ customer_lifecycle_operation
    \/ search_customers

Spec == Init /\ [][Next]_vars

-----------------------------------------------------------------------------
(* Tokens over time: the token endpoint, one protected read, and the clock *)

AuthRequests ==
    CallerTokenRequests
    \cup {Call("get_customer", NoHeader, SampleId, None, NoBody)}
    \cup (IF held = NoToken THEN {}
          ELSE {Call("get_customer", held, SampleId, None, NoBody),
                Call("get_customer", Resigned(held), SampleId, None, NoBody)})

InitAuth ==
    /\ now = 0
    /\ exp_inclusive \in BOOLEAN
    /\ held = NoToken
    /\ \E seed \in SeedStores :
        /\ customers_db = seed.customers
        /\ vulnerabilities_db = seed.vulnerabilities
    /\ lifecycle_events = <<>>
    /\ required_scopes = <<>>
    /\ token_info = NoPayload
    /\ req = NoRequest
    /\ resp = NoResponse
    /\ pc = NoThreads

NextAuth ==
    \/ Receive(AuthRequests)
    \/ Deliver
    \/ Tick(ClockValues)
    \/ \E jti \in UuidSpace : get_token(jti)
    \/ get_customer

SpecAuth == InitAuth /\ [][NextAuth]_vars

-----------------------------------------------------------------------------
(* The stores that are searched, and the queries *)

\* most customers in the store that is searched
MaxStore == 2

\* largest limit parameter sent
MaxLimit == 2

SearchRecord(customer_id, type, party) ==
    [id |-> customer_id, type |-> type, attributes |-> [partyDetails |-> party]]

\* customers as create_customer stores them: two individuals, the name of one
\* a prefix of the other's, and an organisation
SearchRecords ==
    {SearchRecord("100000000", "Individual",
        [individual |-> [firstName |-> "Ann", lastName |-> "Lee"],
         emailContact |-> <<[emailAddress |-> "ann@x.io"]>>,
         phoneContact |-> <<[phoneNumber |-> "0411"]>>,
         alternativePartyIdReferences |->
             <<[partyIdScheme |-> "AAMI", partyIdRef |-> "R1"]>>]),
     SearchRecord("555555555", "Individual",
        [individual |-> [firstName |-> "Anna", lastName |-> "Lee"],
         phoneContact |-> <<[phoneNumber |-> "0422"]>>,
         alternativePartyIdReferences |->
             <<[partyIdScheme |-> "AAMI", partyIdRef |-> "R2"],
               [partyIdScheme |-> "GIO", partyIdRef |-> "R1"]>>]),
     SearchRecord("999999999", "Organisation",
        [organisation |-> [registeredName |-> "Ann Co"],
         emailContact |-> <<[emailAddress |-> "co@x.io"]>>,
         phoneContact |-> <<[phoneNumber |-> "0411"]>>])}

\* the stores: the records in some insertion order, each under its id
SearchStores ==
    {[i \in DOMAIN records |-> [key |-> records[i]["id"], value |-> records[i]]] :
        records \in {r \in SeqsUpTo(SearchRecords, MaxStore) :
                        \A i, j \in DOMAIN r : r[i] = r[j] => i = j}}

\* the query string: the parameters that are there
Present(params) == [k \in {x \in DOMAIN params : params[x] # None} |-> params[k]]

SearchArgs ==
    {Present(params) @@ limit :
        params \in [firstName : {None, "", "Ann", "an"},
                    lastName : {None, "lee"},
                    registeredName : {None, "ann"},
                    emailAddress : {None, "Ann@X.io"},
                    phoneNumber : {None, "0411"},
                    partyIdScheme : {None, "AAMI", "aami"},
                    partyIdRef : {None, "R1"},
                    strictMatch : {None, "True"}],
        limit \in {EmptyDict} \cup {[limit |-> n] : n \in -1..MaxLimit}}

\* a token issued to the demo client at time 0 for all its scopes
FreshToken ==
    TokenResponse(TokenRequest("demo-client-id", "demo-client-secret",
                               "client_credentials", <<>>), 0, "uuid-1").access_token

InitSearch ==
    /\ now = 0
    /\ exp_inclusive \in BOOLEAN
    /\ held = FreshToken
    /\ customers_db \in SearchStores
    /\ vulnerabilities_db = EmptyDict
    /\ lifecycle_events = <<>>
    /\ required_scopes = <<>>
    /\ token_info = NoPayload
    /\ req \in {SearchRequest(held, args) : args \in SearchArgs}
               \cup {SearchRequest(NoHeader, EmptyDict)}
    /\ resp = NoResponse
    /\ pc = NoThreads

NextSearch == search_customers

SpecSearch == InitSearch /\ [][NextSearch]_vars

-----------------------------------------------------------------------------
(* Handler threads: app.run serves each request in a thread of its own, and  *)
(* the handlers take no lock.  request (req, token_info) and the response    *)
(* are local to the thread; customers_db is shared, and existing_customer is *)
(* a reference to the stored record, so each statement of update_customer    *)
(* changes the record in the store.  A thread takes one statement at a time. *)

\* requests handled at the same time
MaxThreads == 2

Threads == 1..MaxThreads

ThreadRequests ==
    {Call("get_customer", held, SampleId, None, NoBody),
     Call("update_customer", held, SampleId, None,
          JsonBody([data |-> [attributes |-> [segment |-> "gold"]]])),
     Call("update_customer", held, SampleId, None,
          JsonBody([data |->
             [attributes |->
                 [partyDetails |->
                     [individual |-> [firstName |-> "Bob", lastName |-> "Lee"]]]]]))}

\* the thread t goes on to the statement at label with response r
Goto(t, label, r) ==
    /\ pc' = [pc EXCEPT ![t] = label]
    /\ resp' = [resp EXCEPT ![t] = r]

\* the statement at from of the handler op is the next of thread t
At(t, op, from) == req[t].op = op /\ pc[t] = from

Local == <<now, exp_inclusive, held, required_scopes, req>>

\* the decorator and the checks of the handler before the record is touched
thread_enter(t) ==
    /\ pc[t] = "enter"
    /\ LET scopes == IF req[t].op = "get_customer" THEN <<"customer:read">>
                     ELSE <<"customer:write">>
           v == RequireAuth(req[t].hdr, scopes, now, exp_inclusive)
       IN  /\ token_info' = [token_info EXCEPT ![t] = v.token_info]
           /\ IF ~v.ok THEN Goto(t, "done", v.resp)
              ELSE IF req[t].customer_id \notin Keys(customers_db)
              THEN Goto(t, "done", NotFoundCustomer)
              ELSE IF req[t].op = "get_customer" THEN Goto(t, "return", NoResponse)
              ELSE IF ~req[t].body.is_json THEN Goto(t, "done", InvalidContentType)
              ELSE IF NoDataObject(req[t].body.json) THEN Goto(t, "done", MissingData)
              ELSE Goto(t, "merge", NoResponse)
    /\ UNCHANGED <<Local, stores>>

\* customer = customers_db[customer_id]; return jsonify({"data": customer})
get_customer_return(t) ==
    /\ At(t, "get_customer", "return")
    /\ Goto(t, "done", [status |-> 200, data |-> Lookup(customers_db, req[t].customer_id)])
    /\ UNCHANGED <<Local, stores, token_info>>

\* the statement of thread t changes the stored record to record
Mutate(t, label, record) ==
    /\ customers_db' = DbPut(customers_db, req[t].customer_id, record)
    /\ Goto(t, label, NoResponse)
    /\ UNCHANGED <<Local, vulnerabilities_db, lifecycle_events, token_info>>

\* a KeyError in thread t
Raise(t) ==
    /\ Goto(t, "done", InternalServerError("KeyError"))
    /\ UNCHANGED <<Local, stores, token_info>>

\* existing_customer['attributes'].update(update_data['attributes'])
update_customer_merge(t) ==
    /\ At(t, "update_customer", "merge")
    /\ Mutate(t, "partyDetails",
              MergeAttributes(Lookup(customers_db, req[t].customer_id),
                              req[t].body.json["data"]))

\* if 'partyDetails' not in existing_customer['attributes']: ... = {}
update_customer_party(t) ==
    /\ At(t, "update_customer", "partyDetails")
    /\ LET existing_customer == Lookup(customers_db, req[t].customer_id)
       IN  IF ~Has(existing_customer, "attributes") THEN Raise(t)
           ELSE Mutate(t, "extensionFields",
                       IF Has(existing_customer["attributes"], "partyDetails")
                       THEN existing_customer
                       ELSE Put(existing_customer, "attributes",
                                Put(existing_customer["attributes"], "partyDetails",
                                    EmptyDict)))

\* if 'extensionFields' not in ...['partyDetails']: ... = []
update_customer_extension(t) ==
    /\ At(t, "update_customer", "extensionFields")
    /\ LET existing_customer == Lookup(customers_db, req[t].customer_id)
           attributes == existing_customer["attributes"]
       IN  IF ~Has(attributes, "partyDetails") THEN Raise(t)
           ELSE Mutate(t, "append",
                       IF Has(attributes["partyDetails"], "extensionFields")
                       THEN existing_customer
                       ELSE Put(existing_customer, "attributes",
                                Put(attributes, "partyDetails",
                                    Put(attributes["partyDetails"], "extensionFields",
                                        <<>>))))

\* ...['partyDetails']['extensionFields'].append(update_fields)
update_customer_append(t) ==
    /\ At(t, "update_customer", "append")
    /\ LET existing_customer == Lookup(customers_db, req[t].customer_id)
           attributes == existing_customer["attributes"]
           update_fields ==
               AuditEntry(<<Field("lastModifiedDate", IsoFormat(now)),
                            Field("lastModifiedBy", Actor(token_info[t]))>>)
       IN  IF \/ ~Has(attributes, "partyDetails")
              \/ ~Has(attributes["partyDetails"], "extensionFields")
           THEN Raise(t)
           ELSE Mutate(t, "return",
                       Put(existing_customer, "attributes",
                           Put(attributes, "partyDetails",
                               Put(attributes["partyDetails"], "extensionFields",
                                   Append(attributes["partyDetails"]["extensionFields"],
                                          update_fields)))))

\* customers_db[customer_id] = existing_customer; return jsonify(...)
update_customer_return(t) ==
    /\ At(t, "update_customer", "return")
    /\ Goto(t, "done", [status |-> 200, data |-> Lookup(customers_db, req[t].customer_id)])
    /\ UNCHANGED <<Local, stores, token_info>>

\* the server was started as __main__ and a caller holding a fresh token sends
\* MaxThreads requests for the sample customer at once
InitThreads ==
    /\ now = 0
    /\ exp_inclusive \in BOOLEAN
    /\ held = TokenResponse(TokenRequest("demo-client-id", "demo-client-secret",
                                         "client_credentials", <<>>), 0, "uuid-1").access_token
    /\ customers_db = <<[key |-> SampleId,
                         value |-> generate_sample_customer(SampleId, "AAMI", 0)]>>
    /\ vulnerabilities_db = EmptyDict
    /\ lifecycle_events = <<>>
    /\ required_scopes = <<>>
    /\ token_info = [t \in Threads |-> NoPayload]
    /\ req \in [Threads -> ThreadRequests]
    /\ resp = [t \in Threads |-> NoResponse]
    /\ pc = [t \in Threads |-> "enter"]

NextThreads ==
    \E t \in Threads :
        \/ thread_enter(t)
        \/ get_customer_return(t)
        \/ update_customer_merge(t)
        \/ update_customer_party(t)
        \/ update_customer_extension(t)
        \/ update_customer_append(t)
        \/ update_customer_return(t)

SpecThreads == InitThreads /\ [][NextThreads]_vars

-----------------------------------------------------------------------------
(* Properties of the token endpoint, under SpecIssue *)

TokenHandled == req.op = "get_token" /\ resp # NoResponse

Issued == TokenHandled /\ resp.status = 200

KnownClient == req.client_id \in DOMAIN OAUTH_CLIENTS

CredentialsOk ==
    KnownClient /\ OAUTH_CLIENTS[req.client_id].client_secret = req.client_secret

\* the scopes the request asks for: the non-empty fields of its scope parameter
RECURSIVE Words(_)
Words(fields) ==
    IF fields = <<>> THEN <<>>
    ELSE IF Head(fields) = "" THEN Words(Tail(fields))
    ELSE <<Head(fields)>> \o Words(Tail(fields))

RECURSIVE Keep(_, _)
Keep(s, S) ==
    IF s = <<>> THEN <<>>
    ELSE IF Head(s) \in S THEN <<Head(s)>> \o Keep(Tail(s), S)
    ELSE Keep(Tail(s), S)

Allowed == Range(OAUTH_CLIENTS[req.client_id].scopes)

Granted == resp.access_token.payload.scopes

\* C2: a token issued to a registered client with the correct secret grants
\* only scopes of that client's allowed scopes, whatever scope list was
\* requested, lists disjoint from the allowed scopes included.
C2_GrantedWithinAllowed ==
    /\ Issued => CredentialsOk /\ Range(Granted) \subseteq Allowed
    /\ TokenHandled /\ CredentialsOk /\ req.grant_type = "client_credentials" => Issued

W2_DisjointRequestIssued ==
    /\ Issued
    /\ Words(req.scope) # <<>>
    /\ Range(Words(req.scope)) \cap Allowed = {}

\* C6: an unknown client id and a known client id with a wrong secret get the
\* same 401 invalid_client response, field by field, and no token.
C6_InvalidClientSameShape ==
    TokenHandled /\ req.grant_type = "client_credentials" /\ ~CredentialsOk =>
        /\ resp = [status |-> 401, code |-> "invalid_client", title |-> "Invalid Client",
                   details |-> "Client authentication failed"]
        /\ held = NoToken

W6_WrongSecretRejected ==
    /\ TokenHandled
    /\ req.grant_type = "client_credentials"
    /\ KnownClient
    /\ req.client_secret = "wrong-secret"
    /\ resp.status = 401

\* C7: the answer is 400 unsupported_grant_type, with no token, exactly when
\* grant_type is not "client_credentials" (absent included), for every client
\* id and secret.
C7_UnsupportedGrantType ==
    TokenHandled =>
        /\ (resp.status = 400 /\ resp.code = "unsupported_grant_type")
               <=> req.grant_type # "client_credentials"
        /\ req.grant_type # "client_credentials" =>
               "access_token" \notin DOMAIN resp /\ held = NoToken

W7_AbsentGrantTypeValidClient ==
    /\ TokenHandled
    /\ req.grant_type = None
    /\ CredentialsOk
    /\ resp.status = 400

\* C8: when a requested scope is allowed, the granted scopes are the requested
\* scopes that are allowed, in requested order; when none is requested, the
\* granted scopes are the client's allowed scopes.
C8_GrantedIsRequestedAllowed ==
    Issued =>
        /\ Range(Words(req.scope)) \cap Allowed # {} =>
               Granted = Keep(Words(req.scope), Allowed)
        /\ Words(req.scope) = <<>> => Granted = OAUTH_CLIENTS[req.client_id].scopes

W8_OrderKept ==
    /\ Issued
    /\ req.scope = <<"customer:write", "customer:read">>
    /\ Granted = <<"customer:write", "customer:read">>

\* C9: with valid credentials and a non-empty request none of whose scopes is
\* allowed, the request succeeds and grants exactly customer:read.
C9_FallbackDefaultScope ==
    TokenHandled /\ CredentialsOk /\ req.grant_type = "client_credentials"
    /\ Words(req.scope) # <<>> /\ Range(Words(req.scope)) \cap Allowed = {} =>
        Issued /\ Granted = <<"customer:read">>

W9_AdminFallsBack ==
    /\ Issued
    /\ req.scope = <<"admin">>
    /\ Granted = <<"customer:read">>

-----------------------------------------------------------------------------
(* Properties of the decorator, under SpecVerify *)

Verified == req.op = "f" /\ resp # NoResponse

\* the header carries a token whose signature validates under the server's key
Signed == req.hdr.present /\ req.hdr.bearer /\ req.hdr.jwt /\ req.hdr.key = SECRET_KEY

HoldsOneOf(scopes) == \E i \in DOMAIN scopes : scopes[i] \in Range(req.hdr.payload.scopes)

\* C5: a correctly signed, unexpired token is answered 403 exactly when
\* required_scopes is non-empty and the token holds none of them.
C5_ForbiddenIffNoRequiredScope ==
    Verified /\ Signed /\ now < req.hdr.payload.exp =>
        (resp = Forbidden <=> required_scopes # <<>> /\ ~HoldsOneOf(required_scopes))

W5_OneOfTwoSuffices ==
    /\ Verified
    /\ Signed
    /\ now < req.hdr.payload.exp
    /\ required_scopes = <<"customer:write", "customer:read">>
    /\ req.hdr.payload.scopes = <<"customer:read">>
    /\ resp.status = 200

-----------------------------------------------------------------------------
(* Properties of tokens over time, under SpecAuth *)

\* a protected request has been answered
Answered == req.op \notin {None, "get_token", "health_check"} /\ resp # NoResponse

\* the request presents the token the token endpoint returned
PresentsIssued == req.hdr = held /\ held # NoToken

Rejected == resp.status \in {401, 403}

\* the tokens the token endpoint returns to the caller's requests
CallerTokens ==
    {TokenResponse(r, t, jti).access_token :
        r \in {q \in CallerTokenRequests : TokenResponse(q, 0, "uuid-1").status = 200},
        t \in ClockValues, jti \in UuidSpace}

AcceptedInLifetime ==
    Answered /\ PresentsIssued =>
        /\ req.hdr.payload.exp = req.hdr.payload.iat + 3600
        /\ now < req.hdr.payload.exp /\ ScopeOk(required_scopes, req.hdr.payload.scopes)
               => ~Rejected
        /\ now > req.hdr.payload.exp => resp = TokenExpired

\* C3: an issued token expires one hour after it was issued; it is accepted
\* (the endpoint's required scope being one it grants) at every time before
\* its expiry, rejected as expired at every time after it, and once rejected
\* as expired it is never accepted again.
C3_IssuedTokenLifetime ==
    /\ []AcceptedInLifetime
    /\ \A tok \in CallerTokens :
          []((Answered /\ req.hdr = tok /\ resp = TokenExpired)
                 => [](Answered /\ req.hdr = tok => Rejected))

W3_RejectedAfterExpiry ==
    /\ Answered
    /\ PresentsIssued
    /\ now > req.hdr.payload.exp
    /\ resp = TokenExpired

\* C4 as claimed: Expired only strictly after expiresAt, and a correctly
\* signed token presented at exactly expiresAt is accepted.
C4_AcceptedAtExpiry ==
    Answered /\ PresentsIssued =>
        /\ resp = TokenExpired => now > req.hdr.payload.exp
        /\ now = req.hdr.payload.exp => ~Rejected

\* C4 as amended: Expired only at or after expiresAt, never before; at
\* exactly expiresAt the token is rejected as expired when the JWT library
\* compares exp <= now and accepted when it compares exp < now.
C4_ExpiredOnlyFromExpiry ==
    Answered /\ PresentsIssued =>
        /\ resp = TokenExpired => now >= req.hdr.payload.exp
        /\ now = req.hdr.payload.exp => (resp = TokenExpired <=> exp_inclusive)

W4_ExpiredAtExpiry ==
    /\ Answered
    /\ PresentsIssued
    /\ now = req.hdr.payload.exp
    /\ resp = TokenExpired

-----------------------------------------------------------------------------
(* Properties of the stores, under Spec *)

WriteScope(op) ==
    IF op = "update_customer_vulnerability" THEN "vulnerability:write" ELSE "customer:write"

\* the request's token verifies for the scope: signed by the server, not past
\* its expiry, and granting the scope
Verifies(scope) ==
    /\ Signed
    /\ now <= req.hdr.payload.exp
    /\ scope \in Range(req.hdr.payload.scopes)

Handling == resp = NoResponse /\ resp' # NoResponse

\* C1: a step changes the customer store, the vulnerability index or the
\* lifecycle events only in answering a request whose bearer token verifies
\* for the endpoint's write scope (customer:write for create, update and
\* lifecycle, vulnerability:write for vulnerability update); a request whose
\* token does not verify is answered 401 or 403 and changes none of the three.
C1_WritesNeedVerifiedToken ==
    [][/\ customers_db' # customers_db =>
              /\ Handling
              /\ req.op \in {"create_customer", "update_customer"}
              /\ Verifies("customer:write")
       /\ vulnerabilities_db' # vulnerabilities_db =>
              /\ Handling
              /\ req.op = "update_customer_vulnerability"
              /\ Verifies("vulnerability:write")
       /\ lifecycle_events' # lifecycle_events =>
              /\ Handling
              /\ req.op = "customer_lifecycle_operation"
              /\ Verifies("customer:write")
       /\ Handling /\ req.op \in {"create_customer", "update_customer",
                                  "update_customer_vulnerability",
                                  "customer_lifecycle_operation"}
          /\ ~Verifies(WriteScope(req.op)) =>
              /\ resp'.status \in {401, 403}
              /\ stores' = stores]_vars

W1_VerifiedCreateStored ==
    /\ Answered
    /\ req.op = "create_customer"
    /\ Verifies("customer:write")
    /\ resp.status = 201
    /\ resp.data["id"] \in Keys(customers_db)

\* C10 as claimed: a successful create adds exactly one customer and leaves
\* every customer stored before as it was.
C10_CreateAddsOne ==
    [][Handling /\ req.op = "create_customer" /\ resp'.status = 201 =>
           /\ Len(customers_db') = Len(customers_db) + 1
           /\ \A i \in DOMAIN customers_db : customers_db'[i] = customers_db[i]]_vars

\* the individual of a record, {} when it has none
Individual(customer) ==
    Get(Get(Get(customer, "attributes", EmptyDict), "partyDetails", EmptyDict),
        "individual", EmptyDict)

\* the request was let through by the decorator
Authorized == Answered /\ resp.status \notin {401, 403}

\* C11: a customer id is stable and a stored customer is never removed: every
\* record in the store carries the id it is stored under, a successful create
\* returns an id that is in the store, no step takes an id out of the store
\* (whatever updates, creates, vulnerability updates and lifecycle operations
\* are handled, an update whose payload names another id included), and an
\* authorized get of an id in the store answers 200 with the record of that id.
C11_IdStableNeverRemoved ==
    /\ [](\A i \in DOMAIN customers_db : customers_db[i].value["id"] = customers_db[i].key)
    /\ [](Answered /\ req.op = "create_customer" /\ resp.status = 201 =>
              resp.data["id"] \in Keys(customers_db))
    /\ [](Authorized /\ req.op = "get_customer" /\ req.customer_id \in Keys(customers_db) =>
              resp.status = 200 /\ resp.data["id"] = req.customer_id)
    /\ [][Keys(customers_db) \subseteq Keys(customers_db')]_vars

\* a get answered with the record an update naming another id has changed
W11_GetAfterUpdateWithOtherId ==
    /\ Authorized
    /\ req.op = "get_customer"
    /\ resp.status = 200
    /\ Individual(resp.data) # EmptyDict
    /\ Individual(resp.data).firstName = "Bob"
    /\ resp.data["id"] = req.customer_id

\* d without the key k
Without(d, k) == [x \in DOMAIN d \ {k} |-> d[x]]

Attributes(record) == Get(record, "attributes", EmptyDict)

\* the attributes the request supplies
Partial == Get(req.body.json["data"], "attributes", EmptyDict)

\* new is old with the keys of partial overwritten by partial's values and the
\* other keys kept; the audit extension fields inside the partyDetails group,
\* which the update appends to, are left out of the comparison
ShallowMerged(old, partial, new) ==
    /\ DOMAIN old \cup DOMAIN partial \subseteq DOMAIN new
    /\ DOMAIN new \subseteq DOMAIN old \cup DOMAIN partial \cup {"partyDetails"}
    /\ \A k \in DOMAIN old \cup DOMAIN partial :
          LET expected == IF k \in DOMAIN partial THEN partial[k] ELSE old[k]
          IN  IF k = "partyDetails"
              THEN Without(new[k], "extensionFields") = Without(expected, "extensionFields")
              ELSE new[k] = expected

\* C12: a successful update keeps every top-level attribute key of the record
\* that the partial does not supply, with its value, and sets every key the
\* partial supplies to the supplied value, whole (a shallow merge: nothing of
\* the old value of a supplied key survives); a successful vulnerability update
\* merges the vulnerability's attributes the same way, and changes nothing else
\* of the record.
C12_ShallowMerge ==
    [][/\ Handling /\ req.op = "update_customer" /\ resp'.status = 200 =>
              ShallowMerged(Attributes(Lookup(customers_db, req.customer_id)), Partial,
                            Attributes(Lookup(customers_db', req.customer_id)))
       /\ Handling /\ req.op = "update_customer_vulnerability" /\ resp'.status = 200 =>
              LET old == vulnerabilities_db[req.customer_id][req.vulnerability_id]
                  new == vulnerabilities_db'[req.customer_id][req.vulnerability_id]
              IN  /\ Attributes(new) = Update(Attributes(old), Partial)
                  /\ \A k \in DOMAIN old \ {"attributes"} : new[k] = old[k]]_vars

\* an update that supplied one new top-level key was answered: the record has
\* the key with the supplied value and still has the contact details it had
W12_KeyAddedOthersKept ==
    /\ Answered
    /\ req.op = "update_customer"
    /\ resp.status = 200
    /\ DOMAIN Partial = {"segment"}
    /\ Attributes(resp.data)["segment"] = "gold"
    /\ Individual(resp.data) # EmptyDict

\* the audit extension sequence of a record
Audit(record) ==
    Get(Get(Attributes(record), "partyDetails", EmptyDict), "extensionFields", <<>>)

\* C13 as claimed: a successful update leaves the record's audit extension
\* sequence as it was before the update, followed by exactly one new
\* modification entry (lastModifiedDate, lastModifiedBy), whatever the partial
\* supplies.
C13_UpdateAppendsOneAudit ==
    [][Handling /\ req.op = "update_customer" /\ resp'.status = 200 =>
           Audit(Lookup(customers_db', req.customer_id)) =
               Append(Audit(Lookup(customers_db, req.customer_id)),
                      AuditEntry(<<Field("lastModifiedDate", IsoFormat(now)),
                                   Field("lastModifiedBy", req.hdr.payload.client_id)>>))]_vars

-----------------------------------------------------------------------------
(* Properties of requests handled at the same time, under SpecThreads *)

\* the threads handling an update that gets as far as the record
Updaters ==
    {t \in Threads : req[t].op = "update_customer" /\ req[t].body.is_json
                     /\ ~NoDataObject(req[t].body.json)}

\* the record the whole update of thread t makes of record
WholeUpdate(t, record) ==
    UpdatedCustomer(record, req[t].body.json["data"], req[t].hdr.payload, now).record

\* the records the updates of the threads S, each applied whole and in some
\* order, make of record: after some of them, and after all of them
RECURSIVE SerialRecords(_, _)
SerialRecords(S, record) ==
    {record} \cup UNION {SerialRecords(S \ {t}, WholeUpdate(t, record)) : t \in S}

RECURSIVE SerialFinals(_, _)
SerialFinals(S, record) ==
    IF S = {} THEN {record}
    ELSE UNION {SerialFinals(S \ {t}, WholeUpdate(t, record)) : t \in S}

\* the sample customer as the threads found it
StartRecord == generate_sample_customer(SampleId, "AAMI", 0)

\* C14 as claimed: an update is indivisible to readers: every record a get
\* returns while updates are being handled is the record as whole updates
\* leave it, never one with an update's attribute merge applied and its
\* modification audit extension still missing.
C14_UpdateIndivisibleToReaders ==
    \A t \in Threads :
        req[t].op = "get_customer" /\ resp[t].status = 200 =>
            resp[t].data \in SerialRecords(Updaters, StartRecord)

\* C15 as claimed: requests that change the stores are atomic with respect to
\* each other: when all of them have been answered none has ended in an
\* internal error, and the stored record is what the same requests, handled
\* one at a time in some order, leave.
C15_MutationsSerializable ==
    (\A t \in Threads : pc[t] = "done") =>
        /\ \A t \in Threads : resp[t].status # 500
        /\ Lookup(customers_db, SampleId) \in SerialFinals(Updaters, StartRecord)

-----------------------------------------------------------------------------
(* Properties of the search, under SpecSearch *)

Searched == Authorized /\ req.op = "search_customers"

\* the criterion groups in their order of precedence; the names are one group
\* (both names, or the one that is supplied)
Precedence ==
    <<{"firstName", "lastName"}, {"registeredName"}, {"emailAddress"}, {"phoneNumber"},
      {"partyIdScheme", "partyIdRef"}>>

NonEmpty(args, k) == k \in DOMAIN args /\ args[k] # ""

\* the group has a value: one of the names, or the single value, or the pair
GroupSupplied(args, g) ==
    IF g = {"partyIdScheme", "partyIdRef"} THEN \A k \in g : NonEmpty(args, k)
    ELSE \E k \in g : NonEmpty(args, k)

\* the keys of the first group that has a value, none if no group has
AppliedGroup(args) ==
    IF \E i \in DOMAIN Precedence : GroupSupplied(args, Precedence[i])
    THEN Precedence[CHOOSE i \in DOMAIN Precedence :
                        /\ GroupSupplied(args, Precedence[i])
                        /\ \A j \in 1..(i - 1) : ~GroupSupplied(args, Precedence[j])]
    ELSE {}

\* the query with only its applied group, the match mode and the limit
AppliedOnly(args) ==
    [k \in DOMAIN args \cap (AppliedGroup(args) \cup {"strictMatch", "limit"}) |-> args[k]]

\* C16: the search applies one criterion group, the first in the order names,
\* registeredName, emailAddress, phoneNumber, (partyIdScheme + partyIdRef)
\* that has a non-empty value: the answer is the answer to the same query
\* without the values of every other group.
C16_FirstGroupDecides ==
    Searched => resp = SearchResponse(customers_db, AppliedOnly(req.args))

\* a name and an email address were supplied and a customer without any email
\* address is among the results
W16_NameBeforeEmail ==
    /\ Searched
    /\ resp.status = 200
    /\ NonEmpty(req.args, "firstName")
    /\ NonEmpty(req.args, "emailAddress")
    /\ \E i \in DOMAIN resp.list : "emailContact" \notin DOMAIN PartyDetails(resp.list[i])

NameSearch == Searched /\ (NonEmpty(req.args, "firstName") \/ NonEmpty(req.args, "lastName"))

\* the match mode asked for: strictMatch is "true" in any case of letters
Strict(args) ==
    "strictMatch" \in DOMAIN args /\ upper(args["strictMatch"]) = upper("true")

\* an individual record: one with a populated individual group
IsIndividual(record) == Get(PartyDetails(record), "individual", EmptyDict) # EmptyDict

\* the supplied name against the record's field, case-insensitively: equal when
\* strict, contained otherwise
NameAgrees(args, record, k) ==
    LET field == lower(Get(PartyDetails(record)["individual"], k, ""))
    IN  IF Strict(args) THEN field = lower(args[k]) ELSE In(lower(args[k]), field)

NameMatches(args, record) ==
    /\ IsIndividual(record)
    /\ \A k \in {"firstName", "lastName"} : NonEmpty(args, k) => NameAgrees(args, record, k)

\* the records of the store that match the names, in the order of the store
NameMatching(db, args) ==
    LET Test(entry) == NameMatches(args, entry.value)
        selected == SelectSeq(db, Test)
    IN  [i \in DOMAIN selected |-> selected[i].value]

IsPrefix(a, b) == Len(a) <= Len(b) /\ SubSeq(b, 1, Len(a)) = a

\* C17: for a name criterion the search matches only individual records whose
\* names agree with every supplied name, case-insensitively, by equality when
\* strictMatch is true and by containment otherwise: the results are the
\* matching records in store order, all of them unless the limit cut them
\* short, and the search answers 404 exactly when no record matches.
C17_NameMatching ==
    NameSearch =>
        LET matching == NameMatching(customers_db, req.args)
        IN  IF matching = <<>> THEN resp = NoMatchingCustomers
            ELSE /\ resp.status = 200
                 /\ IsPrefix(resp.list, matching)
                 /\ Len(resp.list) = Len(matching) \/ Len(resp.list) >= Limit(req.args)

\* strict firstName = "Ann" on a store holding "Ann" and "Anna" returned "Ann" alone
W17_StrictAnnNotAnna ==
    /\ NameSearch
    /\ Strict(req.args)
    /\ NonEmpty(req.args, "firstName")
    /\ req.args["firstName"] = "Ann"
    /\ "limit" \notin DOMAIN req.args
    /\ {"100000000", "555555555"} \subseteq Keys(customers_db)
    /\ resp.status = 200
    /\ Len(resp.list) = 1
    /\ resp.list[1]["id"] = "100000000"

\* the records of the store the criterion of the query selects, in the order
\* of the store (every record when no criterion is supplied)
Matching(db, args) ==
    LET Test(entry) == AppliedGroup(args) = {} \/ Match(entry.value, args, <<>>, 0)
        selected == SelectSeq(db, Test)
    IN  [i \in DOMAIN selected |-> selected[i].value]

\* C18 as claimed: for every limit, 0 and negative ones included, a successful
\* search returns at most limit records, and they are the first matching
\* records in the insertion order of the store.
C18_AtMostLimitInOrder ==
    Searched /\ resp.status = 200 =>
        LET matching == Matching(customers_db, req.args)
        IN  /\ Len(resp.list) <= Limit(req.args)
            /\ IsPrefix(resp.list, matching)
            /\ Len(resp.list) = Len(matching) \/ Len(resp.list) = Limit(req.args)

CriterionKeys == UNION Range(Precedence)

\* the query supplies no criterion at all
NoCriterion == Searched /\ DOMAIN req.args \cap CriterionKeys = {}

Min(a, b) == IF a <= b THEN a ELSE b

\* the number of records the search returned: none when it answered 404
Returned == IF resp.status = 200 THEN Len(resp.list) ELSE 0

\* C19 as claimed: a search with no criterion returns exactly
\* min(limit, totalRecords) records, for every limit and every store size.
C19_NoCriterionMin ==
    NoCriterion => Returned = Min(Limit(req.args), Len(customers_db))

\* C19 as amended: a search with no criterion returns exactly
\* min(limit, totalRecords) records, the first in insertion order, when limit
\* is at least 1 and the store is not empty; with a limit of 0 or less, or an
\* empty store, it answers 404 No Matching Customers.
C19_NoCriterionMinOrNoMatches ==
    NoCriterion =>
        IF Limit(req.args) >= 1 /\ Len(customers_db) >= 1
        THEN /\ resp.status = 200
             /\ Len(resp.list) = Min(Limit(req.args), Len(customers_db))
             /\ \A i \in DOMAIN resp.list : resp.list[i] = customers_db[i].value
        ELSE resp = NoMatchingCustomers

\* no criterion and a negative limit on a store of two: answered 404
W19_NegativeLimitNoMatches ==
    /\ NoCriterion
    /\ Limit(req.args) < 0
    /\ Len(customers_db) = 2
    /\ resp = NoMatchingCustomers

-----------------------------------------------------------------------------
(* Properties of create, under Spec *)

\* C20 as claimed: create fails only on malformed input, and then with a 400
\* validation error that leaves the customer store unchanged: an authorized
\* create either stores a record and returns it with 201, or answers 400; it
\* never ends in another kind of failure.
C20_CreateFailsOnlyInvalidInput ==
    [][Handling /\ req.op = "create_customer" /\ Verifies("customer:write") =>
           \/ /\ resp'.status = 201
              /\ resp'.data["id"] \in Keys(customers_db')
              /\ Lookup(customers_db', resp'.data["id"]) = resp'.data
           \/ /\ resp'.status = 400
              /\ customers_db' = customers_db]_vars

\* the key/value fields of all audit extensions of a record
AuditFields(record) ==
    UNION {Range(Audit(record)[i].extensionField) : i \in DOMAIN Audit(record)}

\* the record is stamped as created by the client
StampedCreated(record, client) ==
    /\ \E f \in AuditFields(record) : f.key = "createdDate"
    /\ \E f \in AuditFields(record) : f.key = "createdBy" /\ f.value = client

\* C21: a create that succeeds for a caller whose verified token was issued to
\* client C stores the record it returns under the returned id, with an audit
\* entry keyed createdDate and an entry createdBy whose value is C; nothing
\* but the handling of a request changes the store, and a get of a stored id
\* returns the stored record: so the get that follows the create immediately
\* returns that record with both entries.
C21_CreateThenGetIsStamped ==
    /\ [][Handling /\ req.op = "create_customer" /\ resp'.status = 201 =>
              /\ Lookup(customers_db', resp'.data["id"]) = resp'.data
              /\ StampedCreated(resp'.data, req.hdr.payload.client_id)]_vars
    /\ [][~Handling => customers_db' = customers_db]_vars
    /\ [](Authorized /\ req.op = "get_customer" /\ req.customer_id \in Keys(customers_db) =>
              resp.status = 200 /\ resp.data = Lookup(customers_db, req.customer_id))

\* a get answered with a record stamped as created by the client of the token
W21_GetReturnsStampedRecord ==
    /\ Authorized
    /\ req.op = "get_customer"
    /\ resp.status = 200
    /\ StampedCreated(resp.data, req.hdr.payload.client_id)

-----------------------------------------------------------------------------
(* Properties of the lifecycle events, under Spec *)

\* C22: the lifecycle event sequence is append-only in arrival order: a
\* lifecycle request answered 200 leaves the sequence as it was followed by
\* exactly one event, which carries the requested operation and the client id
\* of the request's token; no other step changes the sequence at all.
C22_LifecycleAppendOnly ==
    [][IF Handling /\ req.op = "customer_lifecycle_operation" /\ resp'.status = 200
       THEN /\ Len(lifecycle_events') = Len(lifecycle_events) + 1
            /\ SubSeq(lifecycle_events', 1, Len(lifecycle_events)) = lifecycle_events
            /\ LET event == lifecycle_events'[Len(lifecycle_events')]
               IN  /\ event.operation = Get(req.body.json["data"], "operation", "unknown")
                   /\ event.client_id = req.hdr.payload.client_id
       ELSE lifecycle_events' = lifecycle_events]_vars

\* a second event was appended behind the first
W22_SecondEventAppended ==
    /\ Answered
    /\ req.op = "customer_lifecycle_operation"
    /\ resp.status = 200
    /\ Len(lifecycle_events) = 2
    /\ lifecycle_events[1] # lifecycle_events[2]
    /\ lifecycle_events[2].operation = "merge"

-----------------------------------------------------------------------------
(* Properties of the order of the decorator's checks, under SpecVerify *)

\* the token's scopes would not do for the endpoint
ScopesInsufficient == required_scopes # <<>> /\ ~HoldsOneOf(required_scopes)

\* C23: the credential is checked before the scopes: a request whose token is
\* missing, malformed, wrongly signed or past its expiry is answered 401, also
\* when the token's scopes would not do for the endpoint; 403 is answered only
\* to a correctly signed token that is not past its expiry; and token_info is
\* set on the request only when every check passed, to the token's payload.
C23_CredentialBeforeScopes ==
    Verified =>
        /\ ~Signed \/ now > req.hdr.payload.exp => resp.status = 401
        /\ resp.status = 403 => Signed /\ now <= req.hdr.payload.exp /\ ScopesInsufficient
        /\ token_info # NoPayload =>
              /\ Signed
              /\ now <= req.hdr.payload.exp
              /\ ~ScopesInsufficient
              /\ resp.status = 200
              /\ token_info = req.hdr.payload

\* an expired token without the required scope was answered Token Expired
W23_ExpiredAndInsufficientIs401 ==
    /\ Verified
    /\ Signed
    /\ now > req.hdr.payload.exp
    /\ ScopesInsufficient
    /\ resp = TokenExpired

-----------------------------------------------------------------------------
(* Properties of the operations that only read, under Spec *)

ReadOnlyOperations ==
    {"get_token", "health_check", "get_customer", "search_customers",
     "get_customer_vulnerabilities"}

\* the verdict the token, the time and the required scopes determine: 401 for
\* a token that is missing, not validly signed or expired, 403 for one that
\* holds none of the required scopes, 0 when the request is let through
ExpectedVerdict ==
    IF ~Signed THEN 401
    ELSE IF now > req.hdr.payload.exp \/ (now = req.hdr.payload.exp /\ exp_inclusive) THEN 401
    ELSE IF ScopesInsufficient THEN 403
    ELSE 0

Verdict == IF resp.status \in {401, 403} THEN resp.status ELSE 0

\* C24: issuing a token, verifying one, get, search, the vulnerabilities of a
\* customer and the health check change neither the customer store nor the
\* vulnerability index nor the lifecycle events (the client registry is a
\* constant); and the verdict of the verification is the one the presented
\* token, the time and the required scopes determine, whatever the stores
\* hold and whatever requests were handled before.
C24_ReadsChangeNothing ==
    /\ [][Handling /\ (req.op \in ReadOnlyOperations \/ resp'.status \in {401, 403}) =>
              stores' = stores]_vars
    /\ [](Answered => Verdict = ExpectedVerdict)

\* a search was answered after creates and a lifecycle request had changed
\* the stores
W24_SearchAfterWrites ==
    /\ Answered
    /\ req.op = "search_customers"
    /\ resp.status = 200
    /\ Len(customers_db) = 2
    /\ Len(lifecycle_events) >= 1

-----------------------------------------------------------------------------
(* Properties of the external id criterion, under SpecSearch *)

\* no criterion of higher precedence than the external id has a value
PartyIdTurn ==
    /\ Searched
    /\ \A k \in {"firstName", "lastName", "registeredName", "emailAddress", "phoneNumber"} :
          ~NonEmpty(req.args, k)

PartyIdKeys == {"partyIdScheme", "partyIdRef"}

\* one reference of the record has exactly the scheme and the reference asked for
PartyIdMatches(args, record) ==
    \E ref \in Range(Get(PartyDetails(record), "alternativePartyIdReferences", <<>>)) :
        ref.partyIdScheme = args["partyIdScheme"] /\ ref.partyIdRef = args["partyIdRef"]

PartyIdMatching(db, args) ==
    LET Test(entry) == PartyIdMatches(args, entry.value)
        selected == SelectSeq(db, Test)
    IN  [i \in DOMAIN selected |-> selected[i].value]

\* C25: when no criterion of higher precedence is supplied, the external id
\* is applied only when both partyIdScheme and partyIdRef are supplied, and
\* then the results are the records one of whose alternative id references
\* has exactly that scheme and that reference (in store order, all of them
\* unless the limit cut them short, 404 when there is none); when only one
\* of the two is supplied the answer is the answer to the query without it.
C25_PartyIdPair ==
    PartyIdTurn =>
        IF \A k \in PartyIdKeys : NonEmpty(req.args, k)
        THEN LET matching == PartyIdMatching(customers_db, req.args)
             IN  IF matching = <<>> THEN resp = NoMatchingCustomers
                 ELSE /\ resp.status = 200
                      /\ IsPrefix(resp.list, matching)
                      /\ Len(resp.list) = Len(matching) \/ Len(resp.list) >= Limit(req.args)
        ELSE resp = SearchResponse(customers_db,
                                   [k \in DOMAIN req.args \ PartyIdKeys |-> req.args[k]])

\* scheme AAMI and reference R1 on a store holding a record with the pair in
\* one reference and a record with the two in different references: only the
\* first is returned
W25_PairInOneReference ==
    /\ PartyIdTurn
    /\ \A k \in PartyIdKeys : NonEmpty(req.args, k)
    /\ req.args["partyIdScheme"] = "AAMI"
    /\ "limit" \notin DOMAIN req.args
    /\ {"100000000", "555555555"} \subseteq Keys(customers_db)
    /\ resp.status = 200
    /\ Len(resp.list) = 1
    /\ resp.list[1]["id"] = "100000000"

====
